---- MODULE Spec2Model ----
(***************************************************************************)
(* A model of databend_udf/udf.py: the SQL type descriptor translator      *)
(* (_type_str_to_arrow_field / _arrow_field_to_string), the value codec    *)
(* (_input_process_func / _output_process_func), the batch evaluation      *)
(* engine (ScalarFunction.eval_batch, do_exchange_impl) and the function   *)
(* registry (UDFServer).                                                   *)
(*                                                                         *)
(* Python str values are TLA+ strings; Len, SubSeq and \o act on them      *)
(* character by character.                                                 *)
(***************************************************************************)
EXTENDS Integers, Sequences, FiniteSets, TLC

VARIABLES
    \* ---- type descriptor translator (SpecParse)
    text,        \* the descriptor string handed to _type_str_to_arrow_field
    parsed,      \* its result (a field or the exception raised)
    formatted,   \* _arrow_field_to_string(parsed field)
    reparsed,    \* _type_str_to_arrow_field(formatted)
    ppc,         \* position of the round trip
    tclass       \* which family of descriptor strings text was drawn from

parseVars == <<text, parsed, formatted, reparsed, ppc, tclass>>

VARIABLES
    \* ---- value codec (SpecDecode)
    dfield,      \* the field _input_process_func is compiled for
    draw,        \* the columnar value (as_py) handed to the compiled function
    dout,        \* what the compiled function returned
    dpc          \* "start" before the call, "decoded" or "raised" after it

decodeVars == <<dfield, draw, dout, dpc>>

VARIABLES
    \* ---- registry (UDFServer) and registration
    functions,   \* UDFServer._functions: name -> ScalarFunction
    built,       \* the ScalarFunction last constructed, not yet added
    regResult,   \* how the last constructor or add_function call ended
    nbuilt,      \* ScalarFunction objects constructed so far (object identity)
    rejected,    \* ids of the objects whose add_function call raised
    found        \* id of the function get_flight_info last returned (0: none)

regVars == <<functions, built, regResult, nbuilt, rejected, found>>

VARIABLES
    \* ---- one exchange: do_exchange, do_exchange_impl, eval_batch
    udf,         \* the function do_exchange looked up
    callerSaw,   \* what do_exchange gave its caller: "none" yet, "returned", or the exception
    epc,         \* position of do_exchange_impl / eval_batch
    nread,       \* inbound batches taken from the reader
    batch,       \* the inbound batch being evaluated: its columns
    inputs,      \* the decoded columns
    tasks,       \* the futures submitted to the function's executor for this batch
    column,      \* the result column built so far
    output_batch,\* the batch eval_batch yielded, until it is written
    nwritten,    \* batches handed to writer.write_batch
    calls,       \* rows of this batch the user function has been invoked for
    errored,     \* an invocation of the user function has raised
    logged,      \* what logger.exception recorded
    futureExc    \* the exception left in the future do_exchange discarded

exVars == <<udf, callerSaw, epc, nread, batch, inputs, tasks, column, output_batch,
            nwritten, calls, errored, logged, futureExc>>

vars == <<parseVars, decodeVars, regVars, exVars>>

(***************************************************************************)
(* Program constants                                                       *)
(***************************************************************************)
MAX_DECIMAL128_PRECISION == 38
MAX_DECIMAL256_PRECISION == 76

(***************************************************************************)
(* Python str primitives                                                   *)
(***************************************************************************)
Ch(s, i) == SubSeq(s, i, i)

\* s[n:]
DropFirst(s, n) == IF n >= Len(s) THEN "" ELSE SubSeq(s, n + 1, Len(s))

\* s[:-n]
DropLast(s, n) == IF n >= Len(s) THEN "" ELSE SubSeq(s, 1, Len(s) - n)

StartsWith(s, p) == Len(s) >= Len(p) /\ SubSeq(s, 1, Len(p)) = p

EndsWith(s, p) == Len(s) >= Len(p) /\ SubSeq(s, Len(s) - Len(p) + 1, Len(s)) = p

\* sub in s, for str operands: sub occurs in s as a contiguous run
IsSubstring(sub, s) ==
    \E i \in 0..(Len(s) - Len(sub)) : SubSeq(s, i + 1, i + Len(sub)) = sub

WhiteSpace == {" ", "\t"}
Parens == {"(", ")"}

RECURSIVE LStripSet(_, _)
LStripSet(s, cs) ==
    IF Len(s) > 0 /\ Ch(s, 1) \in cs THEN LStripSet(DropFirst(s, 1), cs) ELSE s

RECURSIVE RStripSet(_, _)
RStripSet(s, cs) ==
    IF Len(s) > 0 /\ Ch(s, Len(s)) \in cs THEN RStripSet(DropLast(s, 1), cs) ELSE s

\* s.strip(chars)
StripSet(s, cs) == RStripSet(LStripSet(s, cs), cs)

\* s.strip()
Strip(s) == StripSet(s, WhiteSpace)

LowerLetters == "abcdefghijklmnopqrstuvwxyz"
UpperLetters == "ABCDEFGHIJKLMNOPQRSTUVWXYZ"

UpperCh(c) ==
    IF \E i \in 1..26 : Ch(LowerLetters, i) = c
    THEN Ch(UpperLetters, CHOOSE i \in 1..26 : Ch(LowerLetters, i) = c)
    ELSE c

RECURSIVE Upper(_)
\* s.upper()
Upper(s) == IF Len(s) = 0 THEN "" ELSE UpperCh(Ch(s, 1)) \o Upper(DropFirst(s, 1))

RECURSIVE Split(_, _)
\* s.split(sep) for a one-character sep: at every occurrence, never empty
Split(s, sep) ==
    IF \E i \in 1..Len(s) : Ch(s, i) = sep
    THEN LET k == CHOOSE i \in 1..Len(s) :
                      Ch(s, i) = sep /\ \A j \in 1..(i - 1) : Ch(s, j) # sep
         IN  <<SubSeq(s, 1, k - 1)>> \o Split(DropFirst(s, k), sep)
    ELSE <<s>>

Digits == "0123456789"
IsDigit(c) == \E i \in 1..10 : Ch(Digits, i) = c
DigitVal(c) == (CHOOSE i \in 1..10 : Ch(Digits, i) = c) - 1

RECURSIVE DigitsVal(_, _)
DigitsVal(s, acc) ==
    IF Len(s) = 0 THEN acc
    ELSE DigitsVal(DropFirst(s, 1), 10 * acc + DigitVal(Ch(s, 1)))

AllDigits(s) == Len(s) > 0 /\ \A i \in 1..Len(s) : IsDigit(Ch(s, i))

\* int(s) on an already stripped str: an optional sign and decimal digits;
\* anything else raises ValueError
IntOk(s) ==
    IF Len(s) > 0 /\ Ch(s, 1) \in {"-", "+"} THEN AllDigits(DropFirst(s, 1))
    ELSE AllDigits(s)

IntVal(s) ==
    IF Ch(s, 1) = "-" THEN 0 - DigitsVal(DropFirst(s, 1), 0)
    ELSE IF Ch(s, 1) = "+" THEN DigitsVal(DropFirst(s, 1), 0)
    ELSE DigitsVal(s, 0)

RECURSIVE NatStr(_)
NatStr(n) ==
    IF n < 10 THEN Ch(Digits, n + 1)
    ELSE NatStr(n \div 10) \o Ch(Digits, (n % 10) + 1)

\* the f-string rendering of an int
IntStr(n) == IF n < 0 THEN "-" \o NatStr(0 - n) ELSE NatStr(n)

RECURSIVE JoinStr(_, _)
\* sep.join(parts)
JoinStr(parts, sep) ==
    IF Len(parts) = 0 THEN ""
    ELSE IF Len(parts) = 1 THEN parts[1]
    ELSE parts[1] \o sep \o JoinStr(Tail(parts), sep)

(***************************************************************************)
(* pyarrow fields.  Every field built by the translator has the name "".   *)
(* kind: the physical type; meta: "Variant" when the field carries the     *)
(* metadata {Extension: Variant}; precision/scale: of a decimal (0         *)
(* otherwise); sub: the value field of a list, the key and item fields of  *)
(* a map, the fields of a struct.                                          *)
(***************************************************************************)
Field(k, n, m, p, s, sub) ==
    [kind |-> k, nullable |-> n, meta |-> m, precision |-> p, scale |-> s, sub |-> sub]

\* pa.field("", t, False) for a type without parameters
Prim(k) == Field(k, FALSE, "none", 0, 0, <<>>)

NoField == Field("none", FALSE, "none", 0, 0, <<>>)

\* field.with_nullable(n)
WithNullable(f, n) == [f EXCEPT !.nullable = n]

\* What a call returns or raises
Ok(f) == [ok |-> TRUE, field |-> f, err |-> "none"]
Raise(e) == [ok |-> FALSE, field |-> NoField, err |-> e]

\* The exceptions the translator can raise
UnsupportedType == "ValueError: Unsupported type"
DecimalPrecisionError == "ValueError: Decimal precision must be between 1 and 76"
DecimalScaleError == "ValueError: Decimal scale must be between 0 and precision"
IntLiteralError == "ValueError: invalid literal for int()"
IndexError == "IndexError: list index out of range"
(***************************************************************************)
(* _type_str_to_arrow_field_inner                                          *)
(***************************************************************************)
\* a result with its field made nullable, an exception passed on unchanged
NullableOf(r) == IF r.ok THEN Ok(WithNullable(r.field, TRUE)) ELSE r

\* pa.decimal128 below MAX_DECIMAL128_PRECISION, pa.decimal256 from it on
DecimalField(precision, scale) ==
    IF precision < MAX_DECIMAL128_PRECISION
    THEN Field("decimal128", FALSE, "none", precision, scale, <<>>)
    ELSE Field("decimal256", FALSE, "none", precision, scale, <<>>)

\* the precision and scale checks of the DECIMAL branch
DecimalCheck(precision, scale) ==
    IF precision < 1 \/ precision > MAX_DECIMAL256_PRECISION
    THEN Raise(DecimalPrecisionError)
    ELSE IF scale > precision THEN Raise(DecimalScaleError)
    ELSE Ok(DecimalField(precision, scale))

\* the DECIMAL branch, given type_str[7:].strip("()").split(",")
DecimalOf(str_list) ==
    IF ~IntOk(Strip(str_list[1])) THEN Raise(IntLiteralError)
    ELSE IF Len(str_list) < 2 THEN Raise(IndexError)
    ELSE IF ~IntOk(Strip(str_list[2])) THEN Raise(IntLiteralError)
    ELSE DecimalCheck(IntVal(Strip(str_list[1])), IntVal(Strip(str_list[2])))

\* the branches for the types without parameters, in the order of the code;
\* NoField when none applies.  type_str in ("BINARY") is a test of str in str.
PrimitiveOf(type_str) ==
    IF type_str \in {"BOOLEAN", "BOOL"} THEN Prim("bool")
    ELSE IF type_str \in {"TINYINT", "INT8"} THEN Prim("int8")
    ELSE IF type_str \in {"SMALLINT", "INT16"} THEN Prim("int16")
    ELSE IF type_str \in {"INT", "INTEGER", "INT32"} THEN Prim("int32")
    ELSE IF type_str \in {"BIGINT", "INT64"} THEN Prim("int64")
    ELSE IF type_str \in {"TINYINT UNSIGNED", "UINT8"} THEN Prim("uint8")
    ELSE IF type_str \in {"SMALLINT UNSIGNED", "UINT16"} THEN Prim("uint16")
    ELSE IF type_str \in {"INT UNSIGNED", "INTEGER UNSIGNED", "UINT32"} THEN Prim("uint32")
    ELSE IF type_str \in {"BIGINT UNSIGNED", "UINT64"} THEN Prim("uint64")
    ELSE IF type_str \in {"FLOAT", "FLOAT32"} THEN Prim("float32")
    ELSE IF type_str \in {"FLOAT64", "DOUBLE"} THEN Prim("float64")
    ELSE IF type_str = "DATE" THEN Prim("date32")
    ELSE IF type_str \in {"DATETIME", "TIMESTAMP"} THEN Prim("timestamp_us")
    ELSE IF type_str \in {"STRING", "VARCHAR", "CHAR", "CHARACTER", "TEXT"}
         THEN Prim("large_utf8")
    ELSE IF IsSubstring(type_str, "BINARY") THEN Prim("large_binary")
    ELSE IF type_str \in {"VARIANT", "JSON"}
         THEN Field("large_binary", FALSE, "Variant", 0, 0, <<>>)
    ELSE NoField

RECURSIVE TypeStrToArrowFieldInner(_)
RECURSIVE TupleFields(_, _)

\* the loop of the TUPLE branch: the fields of str_list in order, or the
\* first exception
TupleFields(str_list, fields) ==
    IF Len(str_list) = 0 THEN Ok(Field("struct", FALSE, "none", 0, 0, fields))
    ELSE LET r == TypeStrToArrowFieldInner(Strip(str_list[1]))
         IN  IF r.ok THEN TupleFields(Tail(str_list), Append(fields, r.field))
             ELSE r

\* the MAP branch, given type_str[3:].strip("()").split(",")
MapOf(str_list) ==
    LET key == TypeStrToArrowFieldInner(Strip(str_list[1]))
    IN  IF ~key.ok THEN key
        ELSE IF Len(str_list) < 2 THEN Raise(IndexError)
        ELSE LET val == TypeStrToArrowFieldInner(Strip(str_list[2]))
             IN  IF ~val.ok THEN val
                 ELSE Ok(Field("map", FALSE, "none", 0, 0, <<key.field, val.field>>))

\* the ARRAY branch, given type_str[5:].strip("()").strip()
ArrayOf(elem_str) ==
    LET r == TypeStrToArrowFieldInner(elem_str)
    IN  IF r.ok THEN Ok(Field("list", FALSE, "none", 0, 0, <<r.field>>)) ELSE r

TypeStrToArrowFieldInner(raw) ==
    LET type_str == Upper(Strip(raw))
    IN  IF PrimitiveOf(type_str) # NoField THEN Ok(PrimitiveOf(type_str))
        ELSE IF StartsWith(type_str, "NULLABLE")
             THEN NullableOf(TypeStrToArrowFieldInner(
                      Strip(StripSet(DropFirst(type_str, 8), Parens))))
        ELSE IF EndsWith(type_str, "NULL")
             THEN NullableOf(TypeStrToArrowFieldInner(Strip(DropLast(type_str, 4))))
        ELSE IF StartsWith(type_str, "DECIMAL")
             THEN DecimalOf(Split(StripSet(DropFirst(type_str, 7), Parens), ","))
        ELSE IF StartsWith(type_str, "ARRAY")
             THEN ArrayOf(Strip(StripSet(DropFirst(type_str, 5), Parens)))
        ELSE IF StartsWith(type_str, "MAP")
             THEN MapOf(Split(StripSet(DropFirst(type_str, 3), Parens), ","))
        ELSE IF StartsWith(type_str, "TUPLE")
             THEN TupleFields(Split(StripSet(DropFirst(type_str, 5), Parens), ","), <<>>)
        ELSE Raise(UnsupportedType)

(***************************************************************************)
(* _type_str_to_arrow_field                                                *)
(***************************************************************************)
TypeStrToArrowField(raw) ==
    LET s0 == Upper(Strip(raw))
        hasNull == EndsWith(s0, "NULL")
        s1 == IF hasNull THEN Strip(DropLast(s0, 4)) ELSE s0
        hasNot == hasNull /\ EndsWith(s1, "NOT")
        s2 == IF hasNot THEN Strip(DropLast(s1, 3)) ELSE s1
        r == TypeStrToArrowFieldInner(s2)
    IN  IF r.ok THEN Ok(WithNullable(r.field, ~hasNot)) ELSE r

(***************************************************************************)
(* _arrow_field_to_string, _inner_field_to_string, _field_type_to_string   *)
(***************************************************************************)
Str(s) == [ok |-> TRUE, str |-> s, err |-> "none"]
StrRaise(e) == [ok |-> FALSE, str |-> "", err |-> e]

RECURSIVE FieldTypeToString(_)
RECURSIVE InnerFieldToString(_)
RECURSIVE InnerFieldsToStrings(_, _)

\* [_inner_field_to_string(f) for f in fields], or the first exception
InnerFieldsToStrings(fields, strs) ==
    IF Len(fields) = 0 THEN [ok |-> TRUE, strs |-> strs, err |-> "none"]
    ELSE LET r == InnerFieldToString(fields[1])
         IN  IF r.ok THEN InnerFieldsToStrings(Tail(fields), Append(strs, r.str))
             ELSE [ok |-> FALSE, strs |-> <<>>, err |-> r.err]

FieldTypeToString(field) ==
    LET t == field.kind
    IN  IF t = "bool" THEN Str("BOOLEAN")
        ELSE IF t = "int8" THEN Str("TINYINT")
        ELSE IF t = "int16" THEN Str("SMALLINT")
        ELSE IF t = "int32" THEN Str("INT")
        ELSE IF t = "int64" THEN Str("BIGINT")
        ELSE IF t = "uint8" THEN Str("TINYINT UNSIGNED")
        ELSE IF t = "uint16" THEN Str("SMALLINT UNSIGNED")
        ELSE IF t = "uint32" THEN Str("INT UNSIGNED")
        ELSE IF t = "uint64" THEN Str("BIGINT UNSIGNED")
        ELSE IF t = "float32" THEN Str("FLOAT")
        ELSE IF t = "float64" THEN Str("DOUBLE")
        ELSE IF t \in {"decimal128", "decimal256"}
             THEN Str("DECIMAL(" \o IntStr(field.precision) \o ", "
                      \o IntStr(field.scale) \o ")")
        ELSE IF t = "date32" THEN Str("DATE")
        ELSE IF t = "timestamp_us" THEN Str("TIMESTAMP")
        ELSE IF t \in {"large_utf8", "utf8"} THEN Str("VARCHAR")
        ELSE IF t \in {"large_binary", "binary"}
             THEN IF field.meta = "Variant" THEN Str("VARIANT") ELSE Str("BINARY")
        ELSE IF t \in {"list", "map", "struct"}
             THEN LET r == InnerFieldsToStrings(field.sub, <<>>)
                  IN  IF ~r.ok THEN StrRaise(r.err)
                      ELSE IF t = "list" THEN Str("ARRAY(" \o r.strs[1] \o ")")
                      ELSE IF t = "map"
                           THEN Str("MAP(" \o r.strs[1] \o ", " \o r.strs[2] \o ")")
                      ELSE Str("TUPLE(" \o JoinStr(r.strs, ", ") \o ")")
        ELSE StrRaise(UnsupportedType)

InnerFieldToString(field) ==
    LET r == FieldTypeToString(field)
    IN  IF r.ok /\ field.nullable THEN Str(r.str \o " NULL") ELSE r

ArrowFieldToString(field) ==
    LET r == FieldTypeToString(field)
    IN  IF r.ok /\ ~field.nullable THEN Str(r.str \o " NOT NULL") ELSE r
(***************************************************************************)
(* Python values.  t: "none" (None), "int", "bytes", "str", "list", "tuple",*)
(* "dict" (items: the (key, value) tuples in insertion order) and "raise"  *)
(* (an exception in flight; s names it).                                   *)
(***************************************************************************)
Val(t, i, str, items) == [t |-> t, i |-> i, s |-> str, items |-> items]

None == Val("none", 0, "", <<>>)
IntV(n) == Val("int", n, "", <<>>)
BytesV(b) == Val("bytes", 0, b, <<>>)
StrV(str) == Val("str", 0, str, <<>>)
ListV(items) == Val("list", 0, "", items)
TupleV(items) == Val("tuple", 0, "", items)
DictV(pairs) == Val("dict", 0, "", pairs)
Exc(name) == Val("raise", 0, name, <<>>)

IsExc(v) == v.t = "raise"

\* the first exception among vs, None when there is none
FirstExc(vs) ==
    IF \E i \in 1..Len(vs) : IsExc(vs[i])
    THEN vs[CHOOSE i \in 1..Len(vs) : IsExc(vs[i]) /\ \A j \in 1..(i - 1) : ~IsExc(vs[j])]
    ELSE None

\* json.loads on the payloads the model draws
JsonLoads(b) ==
    IF b = "null" THEN None
    ELSE IF b = "1" THEN IntV(1)
    ELSE IF b = "[1, null]" THEN ListV(<<IntV(1), None>>)
    ELSE Exc("JSONDecodeError")

\* dict.values()
DictValues(d) == [i \in 1..Len(d.items) |-> d.items[i].items[2]]

RECURSIVE DictFromPairs(_, _)
\* dict(pairs) onto the pairs acc: a key met again keeps its place and takes
\* the later value
DictFromPairs(pairs, acc) ==
    IF Len(pairs) = 0 THEN DictV(acc)
    ELSE LET kv == pairs[1]
             key == kv.items[1]
         IN  IF \E i \in 1..Len(acc) : acc[i].items[1] = key
             THEN DictFromPairs(Tail(pairs),
                      [i \in 1..Len(acc) |->
                          IF acc[i].items[1] = key THEN kv ELSE acc[i]])
             ELSE DictFromPairs(Tail(pairs), Append(acc, kv))

\* zip(a, b): as long as the shorter
ZipLen(a, b) == IF Len(a) < Len(b) THEN Len(a) ELSE Len(b)

(***************************************************************************)
(* _input_process_func(field), applied to a value.  An exception raised    *)
(* inside a nested call propagates out of the whole call.                  *)
(***************************************************************************)
IsVariant(field) == field.meta = "Variant"

RECURSIVE InputProcess(_, _)

\* the list branch with the guard on the whole array lost: a null list comes
\* out as an empty list
InputProcessListNullAsEmpty(field, array) ==
    IF array = None THEN ListV(<<>>)
    ELSE LET out == [i \in 1..Len(array.items) |->
                        IF array.items[i] # None
                        THEN InputProcess(field.sub[1], array.items[i])
                        ELSE None]
         IN  IF FirstExc(out) # None THEN FirstExc(out) ELSE ListV(out)

\* the lambda of the list branch
InputProcessList(field, array) ==
    IF array = None THEN None
    ELSE LET out == [i \in 1..Len(array.items) |->
                        IF array.items[i] # None
                        THEN InputProcess(field.sub[1], array.items[i])
                        ELSE None]
         IN  IF FirstExc(out) # None THEN FirstExc(out) ELSE ListV(out)

\* the lambda of the struct branch: map is the dict as_py gives for the record
InputProcessStruct(field, map) ==
    IF map = None THEN None
    ELSE LET values == DictValues(map)
             out == [i \in 1..ZipLen(values, field.sub) |->
                        IF values[i] # None
                        THEN InputProcess(field.sub[i], values[i])
                        ELSE None]
         IN  IF FirstExc(out) # None THEN FirstExc(out) ELSE TupleV(out)

\* the lambda of the map branch: array is the list of (key, value) tuples
InputProcessMap(field, array) ==
    IF array = None THEN None
    ELSE LET pairs == [i \in 1..Len(array.items) |->
                          TupleV([j \in 1..ZipLen(array.items[i].items, field.sub) |->
                              InputProcess(field.sub[j], array.items[i].items[j])])]
             flat == [i \in 1..Len(pairs) |-> FirstExc(pairs[i].items)]
         IN  IF \E i \in 1..Len(flat) : flat[i] # None
             THEN flat[CHOOSE i \in 1..Len(flat) :
                           flat[i] # None /\ \A j \in 1..(i - 1) : flat[j] = None]
             ELSE DictFromPairs(pairs, <<>>)

\* the lambda of the variant branch
InputProcessVariant(v) == IF v # None THEN JsonLoads(v.s) ELSE None

InputProcess(field, v) ==
    IF field.kind = "list" THEN InputProcessList(field, v)
    ELSE IF field.kind = "struct" THEN InputProcessStruct(field, v)
    ELSE IF field.kind = "map" THEN InputProcessMap(field, v)
    ELSE IF field.kind = "large_binary" /\ IsVariant(field) THEN InputProcessVariant(v)
    ELSE v

\* _list_field(field)
ListField(field) == Field("list", TRUE, "none", 0, 0, <<field>>)

(***************************************************************************)
(* _output_process_func(field), applied to a value, for the result fields  *)
(* the model registers (integers, lists and tuples of them)                *)
(***************************************************************************)
RECURSIVE OutputProcess(_, _)
OutputProcess(field, v) ==
    IF field.kind = "list"
    THEN IF v = None THEN None
         ELSE ListV([i \in 1..Len(v.items) |->
                        IF v.items[i] # None
                        THEN OutputProcess(field.sub[1], v.items[i])
                        ELSE None])
    ELSE IF field.kind = "struct"
    THEN IF v = None THEN None
         ELSE TupleV([i \in 1..ZipLen(v.items, field.sub) |->
                        IF v.items[i] # None
                        THEN OutputProcess(field.sub[i], v.items[i])
                        ELSE None])
    ELSE v

(***************************************************************************)
(* The user functions registered.  Per row: count_nulls(x, y) is the number*)
(* of its arguments that are None; add(x, y) is x + y and raises TypeError *)
(* on None.  In batch mode, on whole columns: count_nulls_batch and        *)
(* add_batch apply these over zip(x, y); total_batch returns [len(x)], one *)
(* row whatever the input.                                                 *)
(***************************************************************************)
RowFunctions == {"count_nulls", "add"}
BatchFunctions == {"count_nulls_batch", "add_batch", "total_batch"}

\* inspect.getfullargspec(func)[0]
ArgNames(func) == <<"x", "y">>

\* the test with only the first argument looked at
NoneInFirst(args) == Len(args) > 0 /\ args[1] = None

\* None in args
NoneIn(args) == \E c \in 1..Len(args) : args[c] = None

\* self._func(*args) for one row
UserFunc(func, args) ==
    IF func = "count_nulls"
    THEN IntV(Cardinality({c \in 1..Len(args) : args[c] = None}))
    ELSE IF args[1] = None \/ args[2] = None THEN Exc("TypeError")
    ELSE IntV(args[1].i + args[2].i)

\* [col[row] for col in inputs]
RowArgs(cols, row) == [c \in 1..Len(cols) |-> cols[c].items[row]]

\* self._func(*inputs) in batch mode
UserBatchFunc(func, cols) ==
    IF func = "total_batch" THEN ListV(<<IntV(Len(cols[1].items))>>)
    ELSE LET n == ZipLen(cols[1].items, cols[2].items)
             out == [r \in 1..n |->
                        UserFunc(IF func = "add_batch" THEN "add" ELSE "count_nulls",
                                 RowArgs(cols, r))]
         IN  IF FirstExc(out) # None THEN FirstExc(out) ELSE ListV(out)

(***************************************************************************)
(* ScalarFunction.__init__ and udf()                                       *)
(***************************************************************************)
\* an argument of type Union[str, pa.DataType]
TypeText(t) == [isstr |-> TRUE, text |-> t, dtype |-> NoField]
DataType(k) == [isstr |-> FALSE, text |-> "", dtype |-> Prim(k)]

\* _to_arrow_field
ToArrowField(t) ==
    IF t.isstr THEN TypeStrToArrowField(t.text) ELSE Ok(WithNullable(t.dtype, FALSE))

RECURSIVE ToArrowFields(_, _)
\* [_to_arrow_field(t) for t in _to_list(input_types)], or the first exception
ToArrowFields(types, fields) ==
    IF Len(types) = 0 THEN [ok |-> TRUE, fields |-> fields, err |-> "none"]
    ELSE LET r == ToArrowField(types[1])
         IN  IF r.ok THEN ToArrowFields(Tail(types), Append(fields, r.field))
             ELSE [ok |-> FALSE, fields |-> <<>>, err |-> r.err]

NoFunction ==
    [id |-> 0, name |-> "", func |-> "", input_schema |-> <<>>, result_field |-> NoField,
     io_threads |-> 0, has_executor |-> FALSE, skip_null |-> FALSE, batch_mode |-> FALSE]

Built(u) == [ok |-> TRUE, obj |-> u, err |-> "none"]
NotBuilt(e) == [ok |-> FALSE, obj |-> NoFunction, err |-> e]

ConfigError == "ValueError: Return type must be nullable when skip_null is True"

\* ScalarFunction(func, input_types, result_type, name, io_threads, skip_null,
\* batch_mode); io_threads = 0 stands for None, name = "" for None
ScalarFunctionInit(id, func, input_types, result_type, name, io_threads, skip_null, batch_mode) ==
    LET ins == ToArrowFields(input_types, <<>>)
        res == ToArrowField(result_type)
    IN  IF ~ins.ok THEN NotBuilt(ins.err)
        ELSE IF ~res.ok THEN NotBuilt(res.err)
        ELSE IF skip_null /\ ~res.field.nullable THEN NotBuilt(ConfigError)
        ELSE Built([id |-> id,
                    name |-> IF name # "" THEN name ELSE func,
                    func |-> func,
                    input_schema |-> SubSeq(ins.fields, 1,
                                            ZipLen(ArgNames(func), ins.fields)),
                    result_field |-> res.field,
                    io_threads |-> io_threads,
                    has_executor |-> io_threads # 0,
                    skip_null |-> skip_null,
                    batch_mode |-> batch_mode])

\* udf(...)(func): io_threads reaches the constructor only above 1
UdfDecorator(id, func, input_types, result_type, name, io_threads, skip_null, batch_mode) ==
    IF io_threads # 0 /\ io_threads > 1
    THEN ScalarFunctionInit(id, func, input_types, result_type, name, io_threads,
                            skip_null, batch_mode)
    ELSE ScalarFunctionInit(id, func, input_types, result_type, name, 0,
                            skip_null, batch_mode)

(***************************************************************************)
(* UDFServer.add_function                                                  *)
(***************************************************************************)
AlreadyExists == "ValueError: Function already exists"
DoesNotExist == "ValueError: Function does not exists"

\* the registry with name bound to u
Bind(fs, name, u) == [n \in DOMAIN fs \cup {name} |-> IF n = name THEN u ELSE fs[n]]

\* the strings of the CREATE FUNCTION statement, or the exception raised
\* while formatting them
SignatureOf(u) ==
    LET ins == [i \in 1..Len(u.input_schema) |-> ArrowFieldToString(u.input_schema[i])]
        out == ArrowFieldToString(u.result_field)
    IN  IF \E i \in 1..Len(ins) : ~ins[i].ok THEN UnsupportedType
        ELSE IF ~out.ok THEN UnsupportedType
        ELSE "none"

\* add_function(u) on the registry fs: the registry it leaves and how it ends
AddFunction(fs, u) ==
    IF u.name \in DOMAIN fs THEN [functions |-> fs, err |-> AlreadyExists]
    ELSE [functions |-> Bind(fs, u.name, u), err |-> SignatureOf(u)]

(***************************************************************************)
(* ScalarFunction.eval_batch and do_exchange_impl: helpers                 *)
(***************************************************************************)
NumRows(b) == IF Len(b) = 0 THEN 0 ELSE Len(b[1])

\* the columns of the batch run through the compiled input functions, zipped
\* with the input schema
DecodeInputs(u, b) ==
    [c \in 1..ZipLen(b, u.input_schema) |->
        InputProcess(ListField(u.input_schema[c]), ListV(b[c]))]

\* the cell of a future
Task(st, fn, res) == [st |-> st, fn |-> fn, res |-> res]

\* the function submitted for a row: _null_func when skip_null meets a None
SubmittedFunc(u, args) == IF u.skip_null /\ NoneIn(args) THEN "null" ELSE "user"

\* results gathered as the futures complete: the latest future that is done
NextToCollectLatestDone(ts, col) ==
    IF \E i \in 1..Len(ts) : ts[i].st = "done"
    THEN CHOOSE i \in 1..Len(ts) :
             ts[i].st = "done" /\ \A j \in 1..Len(ts) : ts[j].st = "done" => j <= i
    ELSE Len(col) + 1

\* the future whose result() the list comprehension waits for next: submission
\* order
NextToCollect(ts, col) == Len(col) + 1

Running(ts) == {i \in 1..Len(ts) : ts[i].st = "running"}
Queued(ts) == {i \in 1..Len(ts) : ts[i].st = "queued"}

NoBatch == [names |-> <<>>, column |-> <<>>]

\* pa.RecordBatch.from_arrays([array], schema=self._result_schema), the array
\* made of the column run through the compiled output function
OutputBatch(u, col) ==
    [names |-> <<"output">>,
     column |-> OutputProcess(ListField(u.result_field), ListV(col)).items]

\* logger.exception(e): the exception as raised; nothing is added to it
LogRecord(e) == [exc |-> e.s, func |-> "", row |-> 0]

(***************************************************************************)
(* The descriptor strings the translator is run on                         *)
(***************************************************************************)
\* nesting depth of the compound forms drawn
MaxDepth == 2

RECURSIVE Lower(_)
Lower(s) ==
    IF Len(s) = 0 THEN ""
    ELSE (IF \E i \in 1..26 : Ch(UpperLetters, i) = Ch(s, 1)
          THEN Ch(LowerLetters, CHOOSE i \in 1..26 : Ch(UpperLetters, i) = Ch(s, 1))
          ELSE Ch(s, 1)) \o Lower(DropFirst(s, 1))

\* first letter upper case, the rest lower case
Capitalized(s) == IF Len(s) = 0 THEN "" ELSE Ch(s, 1) \o Lower(DropFirst(s, 1))

\* every primitive keyword and alias the code accepts
PrimitiveKeywords ==
    {"BOOLEAN", "BOOL", "TINYINT", "INT8", "SMALLINT", "INT16", "INT", "INTEGER",
     "INT32", "BIGINT", "INT64", "TINYINT UNSIGNED", "UINT8", "SMALLINT UNSIGNED",
     "UINT16", "INT UNSIGNED", "INTEGER UNSIGNED", "UINT32", "BIGINT UNSIGNED",
     "UINT64", "FLOAT", "FLOAT32", "FLOAT64", "DOUBLE", "DATE", "DATETIME",
     "TIMESTAMP", "STRING", "VARCHAR", "CHAR", "CHARACTER", "TEXT", "BINARY",
     "VARIANT", "JSON"}

\* the four ways of writing nullability
NullForms(t) == {t, t \o " NULL", t \o " NOT NULL", "NULLABLE(" \o t \o ")"}

\* the leaves used inside compound forms
Atoms == {"INT", "VARCHAR", "VARIANT", "DECIMAL(10,2)"}

\* the compound forms over an element descriptor e
CompoundsOver(e) ==
    {"ARRAY(" \o e \o ")", "MAP(VARCHAR, " \o e \o ")", "MAP(INT," \o e \o ")",
     "TUPLE(" \o e \o ")", "TUPLE(" \o e \o ", INT)", "TUPLE(INT, " \o e \o ")"}

RECURSIVE Nested(_)
\* descriptors (without a nullability form of their own) of depth <= d
Nested(d) ==
    IF d = 0 THEN Atoms
    ELSE Nested(d - 1) \cup
         UNION {CompoundsOver(e) : e \in UNION {NullForms(t) : t \in Nested(d - 1)}}

\* descriptor strings of the supported grammar, compound forms nested to depth d
GrammarTexts(d) ==
    UNION {NullForms(t) : t \in Nested(d)}
    \cup UNION {{k, Lower(k), Capitalized(k), " " \o k \o " NOT NULL"} :
                k \in PrimitiveKeywords}

\* DECIMAL(p,s) for p and s around the limits of the code
DecimalRange == (0 - 1)..(MAX_DECIMAL256_PRECISION + 2)
DecimalText(p, s) == "DECIMAL(" \o IntStr(p) \o "," \o IntStr(s) \o ")"

\* text whose keyword is none of the grammar: empty, unknown, part of a keyword
UnknownKeywordTexts ==
    {"", " ", "FOO", "INT4", "NUMBER", "LIST(INT)", "STRUCT(INT)", "INTE", "BOOLE",
     "VARCH", "BIN", "ARR", "DEC", "TUP", "NOT NULL", "FOO NULL", "NULLABLE(FOO)"}
    \cup {DropLast(k, 1) : k \in PrimitiveKeywords \ {"INT8", "BOOLEAN", "INTEGER",
                                                       "INT UNSIGNED", "INTEGER UNSIGNED"}}

\* compound forms with malformed syntax
MalformedTexts ==
    {"ARRAY", "ARRAY(", "ARRAY()", "ARRAY(INT", "ARRAY INT)", "ARRAY((INT)", "ARRAY)INT(",
     "MAP", "MAP()", "MAP(INT)", "MAP(INT,)", "MAP(,INT)", "MAP(INT,INT,INT)", "MAP(INT,INT",
     "TUPLE", "TUPLE()", "TUPLE(INT,)", "TUPLE(,INT)", "TUPLE(INT", "TUPLE(INT,,INT)",
     "DECIMAL", "DECIMAL()", "DECIMAL(10)", "DECIMAL(10,)", "DECIMAL(,2)", "DECIMAL(10,2",
     "DECIMAL(10,2,1)", "DECIMAL 10,2", "NULLABLE(ARRAY(INT)", "NULLABLE()"}
    \cup {DropLast(t, 1) : t \in Nested(1) \ Atoms}

(***************************************************************************)
(* The translator run on one descriptor string: parse, format the parsed   *)
(* field, parse the formatted string                                       *)
(***************************************************************************)
NoStr == StrRaise("none")

\* the parts of the program a specification does not run, at rest
IdleParse ==
    /\ text = "" /\ tclass = [family |-> "idle", p |-> 0, s |-> 0] /\ ppc = "idle"
    /\ parsed = Raise("none") /\ formatted = NoStr /\ reparsed = Raise("none")

IdleDecode == dfield = NoField /\ draw = None /\ dout = None /\ dpc = "idle"

IdleExchange ==
    /\ udf = NoFunction /\ callerSaw = "none" /\ epc = "idle"
    /\ nread = 0 /\ batch = <<>> /\ inputs = <<>> /\ tasks = <<>> /\ column = <<>>
    /\ output_batch = NoBatch /\ nwritten = 0 /\ calls = {} /\ errored = FALSE
    /\ logged = <<>> /\ futureExc = "none"

IdleRegistration ==
    /\ built = NotBuilt("none") /\ regResult = "none" /\ nbuilt = 0
    /\ rejected = {} /\ found = 0

\* the family a descriptor string is drawn from; p and s are the numbers a
\* DECIMAL(p,s) string was written with (0 for the other families)
Family(name, p, s) == [family |-> name, p |-> p, s |-> s]

InitParse ==
    /\ \/ tclass = Family("grammar", 0, 0) /\ text \in GrammarTexts(MaxDepth)
       \/ \E p \in DecimalRange, s \in DecimalRange :
              tclass = Family("decimal", p, s) /\ text = DecimalText(p, s)
       \/ tclass = Family("unknown", 0, 0) /\ text \in UnknownKeywordTexts
       \/ tclass = Family("malformed", 0, 0) /\ text \in MalformedTexts
    /\ parsed = Raise("none")
    /\ formatted = NoStr
    /\ reparsed = Raise("none")
    /\ ppc = "start"
    /\ IdleDecode /\ IdleExchange /\ IdleRegistration /\ functions = <<>>

\* parse(text)
ParseText ==
    /\ ppc = "start"
    /\ parsed' = TypeStrToArrowField(text)
    /\ ppc' = IF parsed'.ok THEN "parsed" ELSE "raised"
    /\ UNCHANGED <<text, tclass, formatted, reparsed, decodeVars, regVars, exVars>>

\* format(parse(text))
FormatParsed ==
    /\ ppc = "parsed"
    /\ formatted' = ArrowFieldToString(parsed.field)
    /\ ppc' = "formatted"
    /\ UNCHANGED <<text, tclass, parsed, reparsed, decodeVars, regVars, exVars>>

\* parse(format(parse(text)))
ParseFormatted ==
    /\ ppc = "formatted"
    /\ formatted.ok
    /\ reparsed' = TypeStrToArrowField(formatted.str)
    /\ ppc' = "done"
    /\ UNCHANGED <<text, tclass, parsed, formatted, decodeVars, regVars, exVars>>

NextParse == ParseText \/ FormatParsed \/ ParseFormatted

SpecParse == InitParse /\ [][NextParse]_vars
(***************************************************************************)
(* Registration: ScalarFunction(...), udf(...), UDFServer.add_function,    *)
(* get_flight_info                                                         *)
(***************************************************************************)
\* ScalarFunction objects constructed in one run
MaxBuilt == 2

\* the names looked up
Names == {"f", "g", "add"}

\* the types a registration is called with: descriptor strings (one of them
\* unknown to the translator) and pyarrow data types (float16 is none of the
\* types _field_type_to_string knows)
InputTypeLists ==
    {<<TypeText("INT"), TypeText("VARIANT")>>,
     <<TypeText("INT"), TypeText("FOO")>>,
     <<DataType("int32"), DataType("float16")>>}

ResultTypes == {TypeText("INT"), TypeText("INT NOT NULL")}

InitRegistry ==
    /\ functions = <<>>
    /\ IdleRegistration
    /\ IdleParse /\ IdleDecode /\ IdleExchange

\* ScalarFunction(func, ...) or udf(...)(func)
Construct ==
    /\ nbuilt < MaxBuilt
    /\ \E func \in RowFunctions, name \in {"f", ""}, ins \in InputTypeLists,
          res \in ResultTypes, skip \in BOOLEAN, decorated \in BOOLEAN :
          /\ built' = IF decorated
                      THEN UdfDecorator(nbuilt + 1, func, ins, res, name, 2, skip, FALSE)
                      ELSE ScalarFunctionInit(nbuilt + 1, func, ins, res, name, 0, skip,
                                              FALSE)
          /\ regResult' = built'.err
    /\ nbuilt' = nbuilt + 1
    /\ UNCHANGED <<functions, rejected, found, parseVars, decodeVars, exVars>>

\* server.add_function(built)
AddFunctionCall ==
    /\ built.ok
    /\ LET r == AddFunction(functions, built.obj)
       IN  /\ functions' = r.functions
           /\ regResult' = r.err
           /\ rejected' = IF r.err # "none" THEN rejected \cup {built.obj.id}
                          ELSE rejected
    /\ built' = NotBuilt("none")
    /\ UNCHANGED <<nbuilt, found, parseVars, decodeVars, exVars>>

\* get_flight_info for a descriptor naming func_name
GetFlightInfo ==
    /\ \E func_name \in Names :
          IF func_name \notin DOMAIN functions
          THEN regResult' = DoesNotExist /\ found' = 0
          ELSE regResult' = "none" /\ found' = functions[func_name].id
    /\ UNCHANGED <<functions, built, nbuilt, rejected, parseVars, decodeVars, exVars>>

\* do_exchange for a descriptor naming func_name: the function is handed to
\* do_exchange_impl on the shared executor and the call returns
DoExchange ==
    /\ epc = "idle"
    /\ \E func_name \in Names :
          IF func_name \notin DOMAIN functions
          THEN /\ callerSaw' = DoesNotExist
               /\ UNCHANGED <<udf, epc>>
          ELSE /\ callerSaw' = "returned"
               /\ udf' = functions[func_name]
               /\ epc' = "begin"
    /\ UNCHANGED <<nread, batch, inputs, tasks, column, output_batch, nwritten, calls,
                   errored, logged, futureExc, regVars, parseVars, decodeVars>>

NextRegistry == Construct \/ AddFunctionCall \/ GetFlightInfo \/ DoExchange

SpecRegistry == InitRegistry /\ [][NextRegistry]_vars

(***************************************************************************)
(* One exchange with a registered function                                 *)
(***************************************************************************)
\* rows of an inbound batch, batches of an inbound stream, workers of the
\* function's executor
MaxRows == 2
MaxBatches == 2
MaxWorkers == 2

\* the columnar values of the two arguments (INT, VARIANT)
IntColumnValues == {None, IntV(1)}
VariantColumnValues == {None, BytesV("null"), BytesV("1")}

\* the inbound batches: two aligned columns of up to MaxRows rows
Batches ==
    UNION {{<<x, y>> : x \in [1..n -> IntColumnValues],
                       y \in [1..n -> VariantColumnValues]} : n \in 0..MaxRows}

\* the functions an exchange is run with: every execution mode, skip_null
\* set and unset, every size of the per-function executor
RegisteredFunctions ==
    {r.obj : r \in
        {ScalarFunctionInit(1, func, <<TypeText("INT"), TypeText("VARIANT")>>,
                            TypeText("INT"), "f", threads, skip, FALSE) :
            func \in RowFunctions, threads \in 0..MaxWorkers, skip \in BOOLEAN}
        \cup
        {ScalarFunctionInit(1, func, <<TypeText("INT"), TypeText("VARIANT")>>,
                            TypeText("INT"), "f", 0, skip, TRUE) :
            func \in BatchFunctions, skip \in BOOLEAN}}

Init ==
    /\ \E u \in RegisteredFunctions : functions = AddFunction(<<>>, u).functions
    /\ IdleRegistration
    /\ IdleExchange
    /\ IdleParse /\ IdleDecode

\* the exception e leaves eval_batch: do_exchange_impl logs it and raises it
\* again, into the future nobody holds
Fails(e) ==
    /\ epc' = "failed"
    /\ logged' = Append(logged, LogRecord(e))
    /\ futureExc' = e.s

\* writer.begin(udf._result_schema)
Begin ==
    /\ epc = "begin"
    /\ epc' = "loop"
    /\ UNCHANGED <<udf, callerSaw, nread, batch, inputs, tasks, column, output_batch,
                   nwritten, calls, errored, logged, futureExc,
                   regVars, parseVars, decodeVars>>

\* for batch in reader: the next batch, decoded, and the branch on the mode
ReadBatch ==
    /\ epc = "loop"
    /\ nread < MaxBatches
    /\ \E b \in Batches :
          /\ batch' = b
          /\ inputs' = DecodeInputs(udf, b)
          /\ IF FirstExc(inputs') # None
             THEN Fails(FirstExc(inputs'))
             ELSE /\ epc' = IF udf.batch_mode THEN "batch"
                            ELSE IF NumRows(b) = 0 THEN "encode"
                            ELSE IF udf.has_executor THEN "submit"
                            ELSE "rows"
                  /\ UNCHANGED <<logged, futureExc>>
    /\ nread' = nread + 1
    /\ tasks' = <<>>
    /\ column' = <<>>
    /\ calls' = {}
    /\ UNCHANGED <<udf, callerSaw, output_batch, nwritten, errored,
                   regVars, parseVars, decodeVars>>

\* the reader is exhausted
EndOfStream ==
    /\ epc = "loop"
    /\ epc' = "done"
    /\ UNCHANGED <<udf, callerSaw, nread, batch, inputs, tasks, column, output_batch,
                   nwritten, calls, errored, logged, futureExc,
                   regVars, parseVars, decodeVars>>

\* batch mode: column = self._func(*inputs)
CallBatch ==
    /\ epc = "batch"
    /\ calls' = {0}
    /\ LET r == UserBatchFunc(udf.func, inputs)
       IN  IF IsExc(r)
           THEN /\ Fails(r)
                /\ errored' = TRUE
                /\ UNCHANGED column
           ELSE /\ column' = r.items
                /\ epc' = "encode"
                /\ UNCHANGED <<errored, logged, futureExc>>
    /\ UNCHANGED <<udf, callerSaw, nread, batch, inputs, tasks, output_batch, nwritten,
                   regVars, parseVars, decodeVars>>

\* sequential mode: the next row on the calling thread
EvalRow ==
    /\ epc = "rows"
    /\ LET row == Len(column) + 1
           args == RowArgs(inputs, row)
           skipped == udf.skip_null /\ NoneIn(args)
           r == IF skipped THEN None ELSE UserFunc(udf.func, args)
       IN  /\ calls' = IF skipped THEN calls ELSE calls \cup {row}
           /\ IF IsExc(r)
              THEN /\ Fails(r)
                   /\ errored' = TRUE
                   /\ UNCHANGED column
              ELSE /\ column' = Append(column, r)
                   /\ epc' = IF row = NumRows(batch) THEN "encode" ELSE "rows"
                   /\ UNCHANGED <<errored, logged, futureExc>>
    /\ UNCHANGED <<udf, callerSaw, nread, batch, inputs, tasks, output_batch, nwritten,
                   regVars, parseVars, decodeVars>>

\* concurrent mode: self._executor.submit(func, *args) for the next row
Submit ==
    /\ epc = "submit"
    /\ LET row == Len(tasks) + 1
       IN  /\ tasks' = Append(tasks,
                           Task("queued", SubmittedFunc(udf, RowArgs(inputs, row)), None))
           /\ epc' = IF row = NumRows(batch) THEN "collect" ELSE "submit"
    /\ UNCHANGED <<udf, callerSaw, nread, batch, inputs, column, output_batch, nwritten,
                   calls, errored, logged, futureExc, regVars, parseVars, decodeVars>>

\* a free worker of the function's executor takes the oldest queued future
\* and calls its function
TaskStart ==
    /\ Queued(tasks) # {}
    /\ Cardinality(Running(tasks)) < udf.io_threads
    /\ LET i == CHOOSE q \in Queued(tasks) : \A o \in Queued(tasks) : q <= o
       IN  /\ tasks' = [tasks EXCEPT ![i].st = "running"]
           /\ calls' = IF tasks[i].fn = "user" THEN calls \cup {i} ELSE calls
    /\ UNCHANGED <<udf, callerSaw, epc, nread, batch, inputs, column, output_batch,
                   nwritten, errored, logged, futureExc, regVars, parseVars, decodeVars>>

\* a running call returns or raises; the future keeps the outcome
TaskFinish ==
    /\ \E i \in Running(tasks) :
          LET r == IF tasks[i].fn = "null" THEN None
                   ELSE UserFunc(udf.func, RowArgs(inputs, i))
          IN  /\ tasks' = [tasks EXCEPT ![i] = Task("done", tasks[i].fn, r)]
              /\ errored' = (errored \/ IsExc(r))
    /\ UNCHANGED <<udf, callerSaw, epc, nread, batch, inputs, column, output_batch,
                   nwritten, calls, logged, futureExc, regVars, parseVars, decodeVars>>

\* column = [future.result() for future in tasks]: the next future, once done
Collect ==
    /\ epc = "collect"
    /\ LET i == NextToCollect(tasks, column)
       IN  /\ tasks[i].st = "done"
           /\ IF IsExc(tasks[i].res)
              THEN /\ Fails(tasks[i].res)
                   /\ UNCHANGED <<tasks, column>>
              ELSE /\ column' = Append(column, tasks[i].res)
                   /\ tasks' = [tasks EXCEPT ![i].st = "taken"]
                   /\ epc' = IF Len(column') = NumRows(batch) THEN "encode" ELSE "collect"
                   /\ UNCHANGED <<logged, futureExc>>
    /\ UNCHANGED <<udf, callerSaw, nread, batch, inputs, output_batch, nwritten, calls,
                   errored, regVars, parseVars, decodeVars>>

\* the column through the compiled output function, pa.array, and the yield
YieldBatch ==
    /\ epc = "encode"
    /\ output_batch' = OutputBatch(udf, column)
    /\ epc' = "yielded"
    /\ UNCHANGED <<udf, callerSaw, nread, batch, inputs, tasks, column, nwritten, calls,
                   errored, logged, futureExc, regVars, parseVars, decodeVars>>

\* writer.write_batch(output_batch)
WriteBatch ==
    /\ epc = "yielded"
    /\ nwritten' = nwritten + 1
    /\ output_batch' = NoBatch
    /\ epc' = "loop"
    /\ UNCHANGED <<udf, callerSaw, nread, batch, inputs, tasks, column, calls, errored,
                   logged, futureExc, regVars, parseVars, decodeVars>>

Next ==
    \/ DoExchange
    \/ Begin
    \/ ReadBatch
    \/ EndOfStream
    \/ CallBatch
    \/ EvalRow
    \/ Submit
    \/ TaskStart
    \/ TaskFinish
    \/ Collect
    \/ YieldBatch
    \/ WriteBatch

Spec == Init /\ [][Next]_vars

(***************************************************************************)
(* Claims about the translator                                             *)
(***************************************************************************)
\* C7: for every descriptor string of the supported grammar, parse succeeds
\* and parse(format(parse(s))) describes the same type as parse(s): the same
\* kind, decimal precision and scale, nested types in order, variant flag and
\* nullability at every level.
C7_ParseFormatRoundTrip ==
    tclass.family = "grammar" =>
        /\ ppc # "raised"
        /\ ppc = "formatted" => formatted.ok
        /\ ppc = "done" => reparsed.ok /\ reparsed.field = parsed.field

\* C8: parse("DECIMAL(p,s)") succeeds if and only if 1 <= p <= 76 and
\* 0 <= s <= p, with exactly the precision and scale written, and otherwise
\* fails with the decimal-specification error.
C8_DecimalBounds ==
    (tclass.family = "decimal" /\ ppc # "start") =>
        LET valid == /\ 1 <= tclass.p /\ tclass.p <= MAX_DECIMAL256_PRECISION
                     /\ 0 <= tclass.s /\ tclass.s <= tclass.p
        IN  /\ parsed.ok <=> valid
            /\ parsed.ok => /\ parsed.field.kind \in {"decimal128", "decimal256"}
                            /\ parsed.field.precision = tclass.p
                            /\ parsed.field.scale = tclass.s
            /\ ~parsed.ok => parsed.err \in {DecimalPrecisionError, DecimalScaleError}

\* C9: parse never returns a type descriptor for text outside the grammar: an
\* unknown, empty or partial keyword fails with the unsupported-type error, a
\* compound form with malformed syntax fails with a syntax error.
C9_RejectsOutsideGrammar ==
    ppc # "start" =>
        /\ tclass.family = "unknown" => ~parsed.ok /\ parsed.err = UnsupportedType
        /\ tclass.family = "malformed" =>
               ~parsed.ok /\ parsed.err \in {IndexError, IntLiteralError}
(***************************************************************************)
(* The compiled decode function run on one value                           *)
(***************************************************************************)
\* longest list or map drawn at the top level, and nested inside another value
MaxListLen == 2
MaxInnerLen == 1

SeqsUpTo(S, n) == UNION {[1..k -> S] : k \in 0..n}

\* the payloads of variant values: JSON null, a number, a list, malformed text
JsonPayloads == {"null", "1", "[1, null]", "{"}

RECURSIVE ValuesOf(_, _)
\* the columnar values (as as_py gives them) of a field, lists and maps no
\* longer than n, those nested in them no longer than MaxInnerLen
ValuesOf(field, n) ==
    {None} \cup
    IF field.kind = "list"
    THEN {ListV(q) : q \in SeqsUpTo(ValuesOf(field.sub[1], MaxInnerLen), n)}
    ELSE IF field.kind = "struct"
    THEN IF Len(field.sub) = 1
         THEN {DictV(<<TupleV(<<StrV("1"), a>>)>>) :
                   a \in ValuesOf(field.sub[1], MaxInnerLen)}
         ELSE {DictV(<<TupleV(<<StrV("1"), ab[1]>>), TupleV(<<StrV("2"), ab[2]>>)>>) :
                   ab \in ValuesOf(field.sub[1], MaxInnerLen)
                          \X ValuesOf(field.sub[2], MaxInnerLen)}
    ELSE IF field.kind = "map"
    THEN {ListV(q) : q \in SeqsUpTo(
             {TupleV(<<kv[1], kv[2]>>) :
                  kv \in (ValuesOf(field.sub[1], MaxInnerLen) \ {None})
                         \X ValuesOf(field.sub[2], MaxInnerLen)}, n)}
    ELSE IF field.kind = "large_binary"
    THEN {BytesV(b) : b \in JsonPayloads}
    ELSE {IntV(1), IntV(2)}

\* the fields the decode function is compiled for, as registration builds
\* them from descriptor strings
DecodeTypeTexts ==
    {"INT", "VARIANT", "ARRAY(INT NULL)", "ARRAY(VARIANT NULL)",
     "ARRAY(ARRAY(INT NULL) NULL)", "TUPLE(INT NULL, VARIANT NULL)",
     "ARRAY(TUPLE(INT NULL, INT NULL) NULL)", "TUPLE(ARRAY(INT NULL) NULL, INT NULL)",
     "TUPLE(TUPLE(INT NULL) NULL)", "MAP(INT, VARIANT NULL)",
     "MAP(INT, ARRAY(INT NULL) NULL)", "ARRAY(MAP(INT, INT NULL) NULL)"}

DecodeFields == {TypeStrToArrowField(t).field : t \in DecodeTypeTexts}

InitDecode ==
    /\ dfield \in DecodeFields
    /\ draw \in ValuesOf(dfield, MaxListLen)
    /\ dout = None
    /\ dpc = "start"
    /\ IdleParse /\ IdleExchange /\ IdleRegistration /\ functions = <<>>

\* _input_process_func(dfield)(draw)
DecodeValue ==
    /\ dpc = "start"
    /\ dout' = InputProcess(dfield, draw)
    /\ dpc' = IF IsExc(dout') THEN "raised" ELSE "decoded"
    /\ UNCHANGED <<dfield, draw, parseVars, regVars, exVars>>

NextDecode == DecodeValue

SpecDecode == InitDecode /\ [][NextDecode]_vars

(***************************************************************************)
(* Claims about the value codec                                            *)
(***************************************************************************)
RECURSIVE Preserved(_, _, _, _)
\* out keeps the nulls and positions of raw at every level of field: a null
\* list, struct, map or variant is null; a list keeps its length and its
\* elements in place, a null element null; a struct gives one element per
\* declared field in schema order; a variant is its JSON value.  With exact,
\* a list element is moreover null only when the input element is null.
Preserved(field, raw, out, exact) ==
    IF field.kind = "list"
    THEN IF raw = None THEN out = None
         ELSE /\ out.t = "list"
              /\ Len(out.items) = Len(raw.items)
              /\ \A i \in 1..Len(raw.items) :
                    /\ raw.items[i] = None => out.items[i] = None
                    /\ raw.items[i] # None =>
                           Preserved(field.sub[1], raw.items[i], out.items[i], exact)
                    /\ exact => (out.items[i] = None => raw.items[i] = None)
    ELSE IF field.kind = "struct"
    THEN IF raw = None THEN out = None
         ELSE /\ out.t = "tuple"
              /\ Len(out.items) = Len(field.sub)
              /\ \A i \in 1..Len(field.sub) :
                    IF DictValues(raw)[i] = None THEN out.items[i] = None
                    ELSE Preserved(field.sub[i], DictValues(raw)[i], out.items[i], exact)
    ELSE IF field.kind = "map"
    THEN IF raw = None THEN out = None
         ELSE out.t = "dict" /\ Len(out.items) <= Len(raw.items)
    ELSE IF field.kind = "large_binary" /\ IsVariant(field)
    THEN IF raw = None THEN out = None ELSE out = JsonLoads(raw.s)
    ELSE out = raw

ArgsOfRow(i) == [c \in 1..Len(inputs) |-> inputs[c].items[i]]
HasNullArg(i) == \E c \in 1..Len(inputs) : inputs[c].items[i] = None

\* the result the chosen mode owes for row i
ResultOfRow(i) ==
    IF udf.batch_mode THEN UserBatchFunc(udf.func, inputs).items[i]
    ELSE IF udf.skip_null /\ HasNullArg(i) THEN None
    ELSE UserFunc(udf.func, ArgsOfRow(i))

Evaluating == {"batch", "rows", "submit", "collect", "encode", "yielded", "failed"}

\* every batch read so far has had its output written, but the one in hand
OneOutputPerInbound ==
    /\ epc \in {"loop", "done"} => nwritten = nread
    /\ epc \in Evaluating => nwritten + 1 = nread

\* C1: in every execution mode an exchange writes exactly one
\* output batch per inbound batch, in arrival order, and the output batch has
\* one column named output with as many rows as the inbound batch, row i the
\* result for row i.
C1_OutputMatchesInbound ==
    /\ OneOutputPerInbound
    /\ epc = "yielded" =>
           /\ output_batch.names = <<"output">>
           /\ Len(output_batch.column) = NumRows(batch)
           /\ \A i \in 1..NumRows(batch) : output_batch.column[i] = ResultOfRow(i)

\* C2: with skip_null, a nullable output and per-row evaluation (sequential
\* or concurrent), the user function is never invoked for a row with a null
\* decoded argument, the output of such a row is null, and the output of
\* every other row is f of its arguments.
C2_SkipNullRows ==
    (udf.skip_null /\ ~udf.batch_mode /\ udf.result_field.nullable) =>
        /\ \A i \in calls : ~HasNullArg(i)
        /\ epc = "yielded" =>
               \A i \in 1..NumRows(batch) :
                   output_batch.column[i] =
                       IF HasNullArg(i) THEN None ELSE UserFunc(udf.func, ArgsOfRow(i))

\* a batch whose first row has a null second argument only and whose second
\* row has none has been evaluated on the executor with skip_null
C2_Witness ==
    /\ udf.skip_null /\ ~udf.batch_mode /\ udf.has_executor
    /\ epc = "yielded" /\ NumRows(batch) = 2
    /\ inputs[1].items[1] # None /\ inputs[2].items[1] = None
    /\ ~HasNullArg(2)
    /\ calls = {2}

RECURSIVE SequentialColumn(_)
\* the column sequential per-row evaluation builds for rows 1..n of the batch
SequentialColumn(n) ==
    IF n = 0 THEN <<>> ELSE Append(SequentialColumn(n - 1), ResultOfRow(n))

\* C4: for a pure function, concurrent per-row evaluation on a worker pool of
\* any size yields the output column sequential per-row evaluation yields,
\* row by row, whatever order the row tasks start and finish in.
C4_ConcurrentEqualsSequential ==
    (~udf.batch_mode /\ epc = "yielded") =>
        output_batch.column = SequentialColumn(NumRows(batch))

\* two rows with different results have been evaluated as two tasks on a pool
\* of two workers, collected and yielded
C4_Witness ==
    /\ udf.has_executor /\ udf.io_threads = 2 /\ ~udf.batch_mode
    /\ epc = "yielded" /\ Len(tasks) = 2
    /\ output_batch.column[1] # output_batch.column[2]

\* C5: once the user function has raised for a row (or the batch), it is not
\* invoked for any further row of that batch and no output batch is written
\* for the batch.
C5_AbortsImmediately ==
    [][errored => (calls' \subseteq calls /\ nwritten' = nwritten)]_vars

\* C6: every error raised while evaluating a batch is surfaced to the caller
\* of the exchange, and the logged error carries the function name and, in
\* the per-row modes, the index of the failing row.
C6_ErrorSurfaced ==
    epc = "failed" =>
        /\ callerSaw = futureExc
        /\ \E k \in 1..Len(logged) :
              /\ logged[k].exc = futureExc
              /\ logged[k].func = udf.name
              /\ (~udf.batch_mode /\ errored) => logged[k].row \in calls

\* the row tasks of the batch in hand that have not completed
Pending == Queued(tasks) \cup Running(tasks)

\* C11: in concurrent per-row mode the engine waits for every row task it
\* submitted for the current batch before it proceeds: no output batch is
\* written and no task of the next batch is submitted while a task of the
\* current batch is pending or running, and whenever evaluation of a batch
\* ends, by a yield or by an error, no row task of that batch is still running.
C11_WaitsForAllRowTasks ==
    (udf.has_executor /\ ~udf.batch_mode) =>
        /\ epc \in {"encode", "yielded", "loop", "done"} => Pending = {}
        /\ epc = "failed" => Running(tasks) = {}

(***************************************************************************)
(* Claims about registration                                               *)
(***************************************************************************)
\* C3: registration is all-or-nothing: a function whose construction or
\* add_function call raised is not in the registry, is never found by
\* get_flight_info and never handed to do_exchange_impl.
C3_RegistrationAllOrNothing ==
    /\ \A n \in DOMAIN functions : functions[n].id \notin rejected
    /\ found \notin rejected
    /\ udf.id \notin rejected

====
